---- MODULE Spec2Model ----
(***************************************************************************)
(* A model of pydf/wkhtmltopdf.py: the argument translator                 *)
(* (_convert_args), the metadata rewriter (_set_meta_data), the            *)
(* synchronous entry point generate_pdf, the asynchronous pool             *)
(* AsyncPydf.generate_pdf, and the queries get_version, get_help and       *)
(* get_extended_help.                                                      *)
(*                                                                         *)
(* Text and bytes are sequences of one-character strings.  A Python value  *)
(* is a record [t, b, n, s]: its type tag, and its payload as a bool, an   *)
(* int or a str.                                                           *)
(***************************************************************************)
EXTENDS Integers, Sequences, FiniteSets, TLC

VARIABLES
    \* _convert_args, run on its own
    py_args, cmd_args, tr_pc,
    \* _set_meta_data, run on its own
    pdf_content, kwargs, meta_pc, meta_out,
    \* AsyncPydf: max_processes, self.semaphore (its value and its queue of
    \* waiting tasks), self.cache_dir
    max_processes, semaphore, cache_dir,
    \* the calls: which draw from the wide input sets, each call's position,
    \* its arguments, its child process, its local variables and what it gave
    rich, pc, req, proc, loc, result,
    \* the output pipes of each call's child: what the child has yet to
    \* write, what is in the pipe and what is in the StreamReader's buffer
    io,
    \* a query of the binary: get_version, get_help or get_extended_help
    query

trVars == <<py_args, cmd_args, tr_pc>>
metaVars == <<pdf_content, kwargs, meta_pc, meta_out>>
callVars == <<max_processes, semaphore, cache_dir, rich, io, pc, req, proc, loc, result, io>>
queryVars == <<query>>
vars == <<trVars, metaVars, callVars, queryVars>>

(***************************************************************************)
(* Bounds.                                                                 *)
(***************************************************************************)
MaxOpts == 2
MaxInt == 10
MaxValLen == 2
MaxLines == 3
MaxCeiling == 2
NumCalls == 3
MaxOutLen == 3
MaxErrSize == 1

\* The capacity of an operating-system pipe, the unit of the sizes, and the
\* size of the StreamReader's buffer beyond which asyncio stops reading the
\* pipe (twice the reader's limit, which is one pipe's capacity).
PipeCap == 1
BufCap == 2
\* The largest output of a child: one unit more than pipe and buffer hold.
MaxOutSize == PipeCap + BufCap + 1

(***************************************************************************)
(* Python values.                                                          *)
(***************************************************************************)
PyNone == [t |-> "None", b |-> FALSE, n |-> 0, s |-> <<>>]
PyBool(x) == [t |-> "bool", b |-> x, n |-> 0, s |-> <<>>]
PyInt(x) == [t |-> "int", b |-> FALSE, n |-> x, s |-> <<>>]
PyStr(x) == [t |-> "str", b |-> FALSE, n |-> 0, s |-> x]

\* Python's ==: None equals only None; a bool equals the int of the same
\* numeric value (False == 0, True == 1); a str equals only the same str.
PyNum(v) == IF v.t = "bool" THEN (IF v.b THEN 1 ELSE 0) ELSE v.n
PyEq(v, w) ==
    CASE v.t = "None" -> w.t = "None"
      [] v.t = "str" -> w.t = "str" /\ v.s = w.s
      [] OTHER -> w.t \in {"bool", "int"} /\ PyNum(v) = PyNum(w)

\* Python's truth value (`if value`).
Truthy(v) ==
    CASE v.t = "None" -> FALSE
      [] v.t = "bool" -> v.b
      [] v.t = "int" -> v.n # 0
      [] OTHER -> v.s # <<>>

Digit(d) == <<"0", "1", "2", "3", "4", "5", "6", "7", "8", "9">>[d + 1]

RECURSIVE IntStr(_)
IntStr(n) == IF n < 10 THEN <<Digit(n)>> ELSE IntStr(n \div 10) \o <<Digit(n % 10)>>

\* str(value)
Str(v) ==
    CASE v.t = "None" -> <<"N", "o", "n", "e">>
      [] v.t = "bool" -> IF v.b THEN <<"T", "r", "u", "e">> ELSE <<"F", "a", "l", "s", "e">>
      [] v.t = "int" -> IntStr(v.n)
      [] OTHER -> v.s

\* What a call gives: the bytes it returns, or the error it raises.
Returned(bytes) == [raised |-> "", value |-> bytes]
Raised(error) == [raised |-> error, value |-> <<>>]

(***************************************************************************)
(* _convert_args                                                           *)
(***************************************************************************)
\* name.replace('_', '-')
Replace(name) == [i \in 1..Len(name) |-> IF name[i] = "_" THEN "-" ELSE name[i]]

\* arg_name = '--' + name.replace('_', '-')
ArgName(name) == <<"-", "-">> \o Replace(name)

\* `value in {None, False}`: set membership, decided by ==.
Omitted(value) == PyEq(value, PyNone) \/ PyEq(value, PyBool(FALSE))

\* `value is True`: identity with the bool True, which no int is.
IsTrue(value) == value.t = "bool" /\ value.b

\* One pass of the loop body for the item (name, value).
ConvertItem(cmd, item) ==
    IF Omitted(item.value) THEN cmd
    ELSE IF IsTrue(item.value) THEN Append(cmd, ArgName(item.name))
    ELSE cmd \o <<ArgName(item.name), Str(item.value)>>

RECURSIVE ConvertLoop(_, _, _)
ConvertLoop(items, i, cmd) ==
    IF i > Len(items) THEN cmd
    ELSE ConvertLoop(items, i + 1, ConvertItem(cmd, items[i]))

\* read from stdin and write to stdout
Marker == <<"-">>

\* The same with the marker appended once only.
convert_args_OneMarker(items) == ConvertLoop(items, 1, <<>>) \o <<Marker>>
convert_args(items) == ConvertLoop(items, 1, <<>>) \o <<Marker, Marker>>

(***************************************************************************)
(* _set_meta_data                                                          *)
(***************************************************************************)
NL == "\n"
BS == "\\"

\* The five fields, in the order of the `fields` list.
FieldNames ==
    << <<"T", "i", "t", "l", "e">>,
       <<"A", "u", "t", "h", "o", "r">>,
       <<"S", "u", "b", "j", "e", "c", "t">>,
       <<"C", "r", "e", "a", "t", "o", "r">>,
       <<"P", "r", "o", "d", "u", "c", "e", "r">> >>

\* fields = [('Title', kwargs.get('title')), ...]: kw is the sequence of the
\* five values title, author, subject, creator, producer.
Fields(kw) == [i \in 1..5 |-> [name |-> FieldNames[i], value |-> kw[i]]]

\* f'/{name} ({value})'
FieldLine(f) == <<"/">> \o f.name \o <<" ", "(">> \o Str(f.value) \o <<")">>

\* '\n'.join(lines)
RECURSIVE Join(_)
Join(lines) ==
    IF lines = <<>> THEN <<>>
    ELSE IF Len(lines) = 1 THEN lines[1]
    ELSE lines[1] \o <<NL>> \o Join(Tail(lines))

KeepField(f) == Truthy(f.value)

RECURSIVE FieldLines(_)
FieldLines(fs) ==
    IF fs = <<>> THEN <<>>
    ELSE IF KeepField(Head(fs)) THEN <<FieldLine(Head(fs))>> \o FieldLines(Tail(fs))
    ELSE FieldLines(Tail(fs))

\* metadata = '\n'.join(f'/{name} ({value})' for name, value in fields if value)
Metadata(kw) == Join(FieldLines(Fields(kw)))

\* The pattern b'/Title.*\n.*\n/Producer.*'.
TitleLit == <<"/", "T", "i", "t", "l", "e">>
ProducerLit == <<"/", "P", "r", "o", "d", "u", "c", "e", "r">>

IsAt(s, i, lit) ==
    /\ i >= 1
    /\ i + Len(lit) - 1 <= Len(s)
    /\ SubSeq(s, i, i + Len(lit) - 1) = lit

\* The least index of s at or after i that holds the byte c, or 0.
Find(s, c, i) ==
    LET at == { j \in i..Len(s) : s[j] = c } IN
    IF at = {} THEN 0 ELSE CHOOSE j \in at : \A k \in at : j <= k

\* The first newline of s at or after i, or 0.
NextNL(s, i) == Find(s, NL, i)

\* The last index of the match of the pattern that starts at i, or 0 when the
\* pattern does not match there.  `.` matches every byte but the newline, so
\* each `.*` that a newline follows runs to the end of its line and the final
\* `.*` runs to the end of the line of the Producer marker.
MatchEnd(s, i) ==
    IF ~IsAt(s, i, TitleLit) THEN 0
    ELSE LET n1 == NextNL(s, i + Len(TitleLit)) IN
         IF n1 = 0 THEN 0
         ELSE LET n2 == NextNL(s, n1 + 1) IN
              IF n2 = 0 \/ ~IsAt(s, n2 + 1, ProducerLit) THEN 0
              ELSE LET n3 == NextNL(s, n2 + 1 + Len(ProducerLit)) IN
                   IF n3 = 0 THEN Len(s) ELSE n3 - 1

\* The start of the leftmost match, or 0: re.sub tries the positions from
\* left to right.
Search(s) ==
    LET at == { i \in 1..Len(s) : MatchEnd(s, i) # 0 } IN
    IF at = {} THEN 0 ELSE CHOOSE i \in at : \A k \in at : i <= k

\* The replacement is a template of re.sub: a backslash escapes the byte
\* after it.  Of the bytes the model draws, `\n` is a newline, `\\` is one
\* backslash, `\1` names a group the pattern does not have (re.error), and a
\* backslash before a byte that is neither a letter nor a digit stays with
\* that byte.  A backslash that ends the template is an error.
Digits == {"0", "1", "2", "3", "4", "5", "6", "7", "8", "9"}
Expanded(bytes) == [ok |-> TRUE, bytes |-> bytes]
BadTemplate == [ok |-> FALSE, bytes |-> <<>>]

\* The template from index i on: the literal bytes up to the next backslash,
\* then the escape, then the rest.
RECURSIVE ExpandFrom(_, _)
ExpandFrom(t, i) ==
    LET b == Find(t, BS, i) IN
    IF b = 0 THEN Expanded(SubSeq(t, i, Len(t)))
    ELSE IF b = Len(t) \/ t[b + 1] \in Digits THEN BadTemplate
    ELSE LET rest == ExpandFrom(t, b + 2)
             this == CASE t[b + 1] = "n" -> <<NL>>
                       [] t[b + 1] = BS -> <<BS>>
                       [] OTHER -> <<BS, t[b + 1]>>
         IN IF rest.ok THEN Expanded(SubSeq(t, i, b - 1) \o this \o rest.bytes)
            ELSE BadTemplate

ExpandTemplate(t) == ExpandFrom(t, 1)

\* re.sub(pattern, repl, string, count=1): the template is compiled before
\* the search, so a bad template raises whether or not the pattern matches.
Sub(repl, string) ==
    LET t == ExpandTemplate(repl)
        i == Search(string)
    IN IF ~t.ok THEN Raised("re.error")
       ELSE IF i = 0 THEN Returned(string)
       ELSE Returned(SubSeq(string, 1, i - 1) \o t.bytes
                      \o SubSeq(string, MatchEnd(string, i) + 1, Len(string)))

set_meta_data(content, kw) ==
    LET metadata == Metadata(kw) IN
    IF metadata # <<>> THEN Sub(metadata, content) ELSE Returned(content)

(***************************************************************************)
(* generate_pdf and AsyncPydf.generate_pdf: what they compute.             *)
(***************************************************************************)
\* WK_PATH = str(THIS_DIR / 'bin' / 'wkhtmltopdf'), one token.
WK_PATH == <<"b", "i", "n", "/", "w", "k">>

\* cache_dir = Path(tempfile.gettempdir()) / 'pydf_cache'
PydfCache == <<"t", "m", "p", "/", "c">>

Whitespace == {" ", NL, "\t", "\r"}

\* The indexes of s that hold no whitespace.
Inked(s) == { i \in 1..Len(s) : s[i] \notin Whitespace }
MinOf(S) == CHOOSE i \in S : \A k \in S : i <= k
MaxOf(S) == CHOOSE i \in S : \A k \in S : i >= k

\* html.lstrip()
LStrip(s) == IF Inked(s) = {} THEN <<>> ELSE SubSeq(s, MinOf(Inked(s)), Len(s))

\* stderr.strip()
Strip(s) == IF Inked(s) = {} THEN <<>> ELSE SubSeq(s, MinOf(Inked(s)), MaxOf(Inked(s)))

\* s.startswith(prefix)
StartsWith(s, prefix) == IsAt(s, 1, prefix)

\* html.lstrip().startswith(('http', 'www'))
Http == <<"h", "t", "t", "p">>
Www == <<"w", "w", "w">>
\* The same test on the text as given, its leading whitespace kept.
IsUrl_NoLStrip(html) == StartsWith(html, Http) \/ StartsWith(html, Www)
IsUrl(html) == StartsWith(LStrip(html), Http) \/ StartsWith(LStrip(html), Www)

\* A lone surrogate code point, which html.encode() (UTF-8) refuses with
\* UnicodeEncodeError; every other character of the model encodes to itself.
Surrogate == "U+D800"
Encodable(html) == \A i \in 1..Len(html) : html[i] # Surrogate

\* pdf_content[:4]
Slice4(bytes) == SubSeq(bytes, 1, IF Len(bytes) < 4 THEN Len(bytes) ELSE 4)

PdfSig == <<"%", "P", "D", "F">>

\* p.returncode != 0 and pdf_content[:4] != b'%PDF'
\* The same test with the exit status alone.
Failed_AnyNonzero(returncode, bytes) == returncode # 0
Failed(returncode, bytes) == returncode # 0 /\ Slice4(bytes) # PdfSig

\* The names of generate_pdf's command-line parameters, in the order of the
\* py_args dict, each with its default.
Item(name, value) == [name |-> name, value |-> value]
CacheDirName == <<"c", "a", "c", "h", "e", "_", "d", "i", "r">>
SyncDefaults ==
    << Item(CacheDirName, PyNone),
       Item(<<"g", "r", "a", "y", "s", "c", "a", "l", "e">>, PyBool(FALSE)),
       Item(<<"l", "o", "w", "q", "u", "a", "l", "i", "t", "y">>, PyBool(FALSE)),
       Item(<<"m", "a", "r", "g", "i", "n", "_", "b", "o", "t", "t", "o", "m">>, PyNone),
       Item(<<"m", "a", "r", "g", "i", "n", "_", "l", "e", "f", "t">>, PyNone),
       Item(<<"m", "a", "r", "g", "i", "n", "_", "r", "i", "g", "h", "t">>, PyNone),
       Item(<<"m", "a", "r", "g", "i", "n", "_", "t", "o", "p">>, PyNone),
       Item(<<"o", "r", "i", "e", "n", "t", "a", "t", "i", "o", "n">>, PyNone),
       Item(<<"p", "a", "g", "e", "_", "h", "e", "i", "g", "h", "t">>, PyNone),
       Item(<<"p", "a", "g", "e", "_", "w", "i", "d", "t", "h">>, PyNone),
       Item(<<"p", "a", "g", "e", "_", "s", "i", "z", "e">>, PyNone),
       Item(<<"i", "m", "a", "g", "e", "_", "d", "p", "i">>, PyNone),
       Item(<<"i", "m", "a", "g", "e", "_", "q", "u", "a", "l", "i", "t", "y">>, PyNone) >>

HasKey(items, name) == \E i \in 1..Len(items) : items[i].name = name
ValueOf(items, name) == items[CHOOSE i \in 1..Len(items) : items[i].name = name].value

\* py_args = dict(cache_dir=cache_dir, ...); py_args.update(extra_kwargs):
\* the named parameters in the order of the dict, each with the caller's value
\* or its default, then the caller's other options in the caller's order.
SyncPyArgs(opts) ==
    [i \in 1..Len(SyncDefaults) |->
        IF HasKey(opts, SyncDefaults[i].name)
        THEN Item(SyncDefaults[i].name, ValueOf(opts, SyncDefaults[i].name))
        ELSE SyncDefaults[i]]
    \o SelectSeq(opts, LAMBDA it : ~HasKey(SyncDefaults, it.name))

\* cmd_args.setdefault('cache_dir', self.cache_dir): the pool's directory is
\* added, last, when the caller's options have no cache_dir key.
\* (AsyncPyArgs_Always: the pool's directory is added whatever the caller gave.)
AsyncPyArgs_Always(opts, dir) == Append(opts, Item(CacheDirName, PyStr(dir)))
AsyncPyArgs(opts, dir) ==
    IF HasKey(opts, CacheDirName) THEN opts
    ELSE Append(opts, Item(CacheDirName, PyStr(dir)))

\* cmd_args = _convert_args(py_args): the list the synchronous entry point
\* builds, runs behind WK_PATH (_execute_wk) and formats into its error.
SyncCmdArgs(opts) == convert_args(SyncPyArgs(opts))

\* cmd_args = [WK_PATH] + _convert_args(cmd_args)
AsyncCmdArgs(opts, dir) == <<WK_PATH>> \o convert_args(AsyncPyArgs(opts, dir))

\* What a call of an entry point gives: the bytes it returns, or the error it
\* raises; a RuntimeError holds the two values formatted into its message,
\* the command (cmd_args) and the response (stderr.strip()).
Return(bytes) == [raised |-> "", value |-> bytes, command |-> <<>>, response |-> <<>>]
Raise(error) == [raised |-> error, value |-> <<>>, command |-> <<>>, response |-> <<>>]
RaiseRuntimeError(cmd, response) ==
    [raised |-> "RuntimeError", value |-> <<>>, command |-> cmd, response |-> response]

\* return _set_meta_data(pdf_content, title=title, ...)
ReturnRewritten(bytes, meta) ==
    LET r == set_meta_data(bytes, meta) IN
    IF r.raised = "" THEN Return(r.value) ELSE Raise(r.raised)

(***************************************************************************)
(* _execute_wk, _string_execute and the queries: what they compute.        *)
(***************************************************************************)
\* from .version import VERSION: the library's version, one line of text.
VERSION == <<"0", ".", "3">>

\* The flag each query gives to the binary.
VersionFlag == <<"-", "V">>
HelpFlag == <<"-", "h">>
ExtendedHelpFlag == <<"-", "H">>

\* A byte that begins no UTF-8 sequence: .decode() raises UnicodeDecodeError
\* for output that holds it; every other byte of the model decodes to itself.
BadByte == "0xFF"
Decodable(bytes) == \A i \in 1..Len(bytes) : bytes[i] # BadByte

\* .strip(' \n'): spaces and newlines, and nothing else, leave both ends.
Kept(s) == { i \in 1..Len(s) : s[i] \notin {" ", NL} }
StripSpaceNL(s) == IF Kept(s) = {} THEN <<>> ELSE SubSeq(s, MinOf(Kept(s)), MaxOf(Kept(s)))

\* An exception: the name of its class and its message, str(e).
Exception(cls, msg) == [cls |-> cls, msg |-> msg]
NoException == Exception(<<>>, <<>>)
FileNotFoundError == Exception(<<"F", "i", "l", "e", "N", "o", "t", "F", "o", "u", "n", "d", "E", "r", "r", "o", "r">>, <<"E", "2">>)
PermissionError == Exception(<<"P", "e", "r", "m", "i", "s", "s", "i", "o", "n", "E", "r", "r", "o", "r">>, <<"E", "1", "3">>)
UnicodeDecodeError == Exception(<<"U", "n", "i", "c", "o", "d", "e", "D", "e", "c", "o", "d", "e", "E", "r", "r", "o", "r">>, <<"b", "a", "d", " ", "b", "y", "t", "e">>)

\* '%s: %s' % (e.__class__.__name__, e)
Describe(e) == e.cls \o <<":", " ">> \o e.msg

\* 'pydf version: %s\nwkhtmltopdf version: %s' % (VERSION, wk_version)
PydfLabel == <<"p", "y", "d", "f", " ", "v", "e", "r", "s", "i", "o", "n", ":", " ">>
WkLabel == <<"w", "k", "h", "t", "m", "l", "t", "o", "p", "d", "f", " ", "v", "e", "r", "s", "i", "o", "n", ":", " ">>
VersionText(wk_version) == PydfLabel \o VERSION \o <<NL>> \o WkLabel \o wk_version

\* What a query gives: the text it returns, or the exception it raises.
QueryReturn(text) == [raised |-> NoException, value |-> text]
QueryRaise(e) == [raised |-> e, value |-> <<>>]

(***************************************************************************)
(* The calls of a run.  Call 0 is a call of the synchronous generate_pdf,  *)
(* the calls 1..NumCalls are tasks that call generate_pdf of one AsyncPydf.*)
(* A request is the caller's arguments: the html, the options in the       *)
(* caller's order and the five metadata values.  The child's behaviour     *)
(* (whether it can be started, and its exit status and output) is the      *)
(* environment's choice.  The calls in `rich` draw from the wide sets, the *)
(* others from the narrow ones.                                            *)
(***************************************************************************)
SyncCall == 0
AsyncCalls == 1..NumCalls
Calls == {SyncCall} \cup AsyncCalls

Request(html, opts, meta) == [html |-> html, opts |-> opts, meta |-> meta]
NoMeta == <<PyNone, PyNone, PyNone, PyNone, PyNone>>
TitleOnly(t) == <<PyStr(t), PyNone, PyNone, PyNone, PyNone>>
PlainHtml == <<"<", "p", ">">>

HtmlBodies ==
    { <<>>, PlainHtml, Http \o <<":">>, Www \o <<".">>, <<"h", "t", "t">>,
      <<"<">> \o Http, <<Surrogate>> }
HtmlPrefixes == { <<>>, <<" ">>, <<NL, " ">> }
Htmls == { p \o b : p \in HtmlPrefixes, b \in HtmlBodies }

CallOpts ==
    { <<>>,
      << Item(<<"q", "u", "i", "e", "t">>, PyBool(TRUE)) >>,
      << Item(CacheDirName, PyStr(<<"c">>)) >>,
      << Item(<<"i", "m", "a", "g", "e", "_", "d", "p", "i">>, PyInt(MaxInt)),
         Item(CacheDirName, PyNone) >> }
CallMetas == { NoMeta, TitleOnly(<<"n">>) }

RichRequests ==
    { Request(h, <<>>, NoMeta) : h \in Htmls }
        \cup { Request(PlainHtml, o, m) : o \in CallOpts, m \in CallMetas }
PlainRequests == { Request(PlainHtml, <<>>, NoMeta) }

AnchorDoc == PdfSig \o <<NL>> \o TitleLit \o <<NL, "m", NL>> \o ProducerLit

\* The child's exit: its status and what it wrote.
Exit(rc, out, err) == [returncode |-> rc, stdout |-> out, stderr |-> err]
ExitCodes == {0, 1, -9}
Stdouts ==
    { <<>>, <<"%", "P", "D">>, PdfSig, PdfSig \o <<"-">>, <<"x">> \o PdfSig,
      <<"%", "P", "D", "x">>, AnchorDoc }
Stderrs == { <<>>, <<"e">>, <<NL, " ", "e", " ", "r", " ", NL>> }
RichExits == { Exit(rc, out, err) : rc \in ExitCodes, out \in Stdouts, err \in Stderrs }
PlainExits == { Exit(0, PdfSig, <<>>), Exit(1, <<>>, <<"e">>) }

(***************************************************************************)
(* The state of the calls.                                                 *)
(***************************************************************************)
NoProcess == [status |-> "none", returncode |-> 0, stdout |-> <<>>, stderr |-> <<>>]
\* The local variables of a call, and the steps of its lifecycle that it has
\* taken so far, in their order.
NoLocals ==
    [cmd_args |-> <<>>, pdf_content |-> <<>>, stderr |-> <<>>, verdict |-> "", log |-> <<>>]
Logged(l, step) == [l EXCEPT !.log = Append(@, step)]

\* The two output pipes of a child, stdout=PIPE and stderr=PIPE.  Sizes are
\* counted in units of the capacity of an operating-system pipe.
Streams == {"stdout", "stderr"}
Pipes(sizes) ==
    [size |-> sizes, left |-> sizes,
     pipe |-> [s \in Streams |-> 0], buf |-> [s \in Streams |-> 0]]
NoPipes == Pipes([s \in Streams |-> 0])

\* await p.stdout.read(), await p.stderr.read(): the read takes what is in
\* the buffer and in the pipe of the stream, up to its end.
Drained(p, s) == [p EXCEPT !.pipe[s] = 0, !.buf[s] = 0]

Requests(c) == IF c \in rich THEN RichRequests ELSE PlainRequests
Exits(c) == IF c \in rich THEN RichExits ELSE PlainExits

\* AsyncPydf.__init__: the semaphore holds max_processes and nobody waits;
\* the cache directory is fixed.
PoolInit ==
    /\ max_processes \in 1..MaxCeiling
    /\ semaphore = [value |-> max_processes, waiters |-> <<>>]
    /\ cache_dir = PydfCache

\* A run is one of: one call of the synchronous entry point; two tasks on a
\* pool, the first with the wide inputs; NumCalls tasks on a pool.
CallsInit ==
    /\ PoolInit
    /\ \E run \in {"sync", "async", "pool"} :
         /\ rich = (CASE run = "sync" -> {SyncCall} [] run = "async" -> {1} [] OTHER -> {})
         /\ pc = [c \in Calls |->
                    IF c \in (CASE run = "sync" -> {SyncCall}
                                [] run = "async" -> 1..2
                                [] OTHER -> AsyncCalls)
                    THEN "Pending" ELSE "Absent"]
    /\ req = [c \in Calls |-> Request(<<>>, <<>>, NoMeta)]
    /\ proc = [c \in Calls |-> NoProcess]
    /\ loc = [c \in Calls |-> NoLocals]
    /\ result = [c \in Calls |-> Return(<<>>)]
    /\ io = [c \in Calls |-> NoPipes]

CallsIdle ==
    /\ max_processes = 1
    /\ semaphore = [value |-> 1, waiters |-> <<>>]
    /\ cache_dir = PydfCache
    /\ rich = {}
    /\ pc = [c \in Calls |-> "Absent"]
    /\ req = [c \in Calls |-> Request(<<>>, <<>>, NoMeta)]
    /\ proc = [c \in Calls |-> NoProcess]
    /\ loc = [c \in Calls |-> NoLocals]
    /\ result = [c \in Calls |-> Return(<<>>)]
    /\ io = [c \in Calls |-> NoPipes]

TrIdle ==
    /\ py_args = <<>>
    /\ cmd_args = <<>>
    /\ tr_pc = "idle"

MetaIdle ==
    /\ pdf_content = <<>>
    /\ kwargs = <<>>
    /\ meta_pc = "idle"
    /\ meta_out = Returned(<<>>)

\* No query is made.
NoQuery ==
    [fn |-> "", pc |-> "Absent", args |-> <<>>, stdout |-> <<>>, text |-> <<>>,
     exc |-> NoException, out |-> QueryReturn(<<>>)]

QueryIdle == query = NoQuery

(***************************************************************************)
(* The translator run on its own: an Option Set is an ordered mapping,     *)
(* here a sequence of items with distinct names.                           *)
(***************************************************************************)
OptNames == { <<"q">>, <<"p", "_", "s">>, <<"_", "a", "_", "_">> }
OptValues ==
    {PyNone, PyBool(FALSE), PyBool(TRUE), PyInt(0), PyInt(1), PyInt(MaxInt),
     PyStr(<<>>), PyStr(<<"-">>), PyStr(<<"A", "4">>)}

OptionSets ==
    UNION { { f \in [1..k -> [name : OptNames, value : OptValues]] :
                \A i, j \in 1..k : i # j => f[i].name # f[j].name } : k \in 0..MaxOpts }

TrInit ==
    /\ py_args \in OptionSets
    /\ cmd_args = <<>>
    /\ tr_pc = "call"

Translate ==
    /\ tr_pc = "call"
    /\ cmd_args' = convert_args(py_args)
    /\ tr_pc' = "done"
    /\ UNCHANGED <<py_args, metaVars, callVars, queryVars>>

InitArgs == TrInit /\ MetaIdle /\ CallsIdle /\ QueryIdle
NextArgs == Translate
SpecArgs == InitArgs /\ [][NextArgs]_vars

(***************************************************************************)
(* The rewriter run on its own.  The values of the fields are drawn over   *)
(* the bytes n, 1 and backslash; the documents are lines joined by         *)
(* newlines.                                                               *)
(***************************************************************************)
SeqsUpTo(S, n) == UNION { [1..k -> S] : k \in 0..n }

ValChars == {"n", "1", BS}
TitleValues == {PyNone} \cup { PyStr(v) : v \in SeqsUpTo(ValChars, MaxValLen) }
OtherValues == {PyNone, PyStr(<<>>), PyStr(<<"n">>)}

DocLines ==
    { TitleLit \o <<" ", "o">>,
      <<"x">> \o TitleLit,
      <<"m">>,
      ProducerLit \o <<"p">> }
Docs == { Join(ls) : ls \in SeqsUpTo(DocLines, MaxLines) }

MetaInit ==
    /\ pdf_content \in Docs
    /\ kwargs \in { <<ti, au, su, cr, pr>> :
                      ti \in TitleValues, au \in OtherValues, su \in {PyNone, PyStr(<<"1">>)},
                      cr \in OtherValues, pr \in OtherValues }
    /\ meta_pc = "call"
    /\ meta_out = Returned(<<>>)

Rewrite ==
    /\ meta_pc = "call"
    /\ meta_out' = set_meta_data(pdf_content, kwargs)
    /\ meta_pc' = "done"
    /\ UNCHANGED <<pdf_content, kwargs, trVars, callVars, queryVars>>

InitMeta == MetaInit /\ TrIdle /\ CallsIdle /\ QueryIdle
NextMeta == Rewrite
SpecMeta == InitMeta /\ [][NextMeta]_vars

(***************************************************************************)
(* The queries of the binary, run on their own: get_version, get_help and  *)
(* get_extended_help.  Whether the binary can be started, and what it      *)
(* writes, is the environment's choice.                                    *)
(***************************************************************************)
QueryInit == query = [NoQuery EXCEPT !.pc = "Pending"]

OutBytes == {"0", " ", NL, BadByte}
QueryOutputs == SeqsUpTo(OutBytes, MaxOutLen)
SpawnFaults == {FileNotFoundError, PermissionError}

\* The caller calls get_version(): _string_execute('-V') inside the try.
get_version ==
    /\ query.pc = "Pending"
    /\ query' = [query EXCEPT !.fn = "get_version", !.args = <<WK_PATH, VersionFlag>>,
                              !.pc = "Execute"]
    /\ UNCHANGED <<trVars, metaVars, callVars>>

\* The caller calls get_help(): _string_execute('-h').
get_help ==
    /\ query.pc = "Pending"
    /\ query' = [query EXCEPT !.fn = "get_help", !.args = <<WK_PATH, HelpFlag>>,
                              !.pc = "Execute"]
    /\ UNCHANGED <<trVars, metaVars, callVars>>

\* The caller calls get_extended_help(): _string_execute('-H').
get_extended_help ==
    /\ query.pc = "Pending"
    /\ query' = [query EXCEPT !.fn = "get_extended_help", !.args = <<WK_PATH, ExtendedHelpFlag>>,
                              !.pc = "Execute"]
    /\ UNCHANGED <<trVars, metaVars, callVars>>

\* _execute_wk: subprocess.run(wk_args, ...) returns the completed process,
\* whatever its exit status is.
ExecuteWk ==
    /\ query.pc = "Execute"
    /\ \E out \in QueryOutputs : query' = [query EXCEPT !.stdout = out, !.pc = "Decode"]
    /\ UNCHANGED <<trVars, metaVars, callVars>>

\* subprocess.run cannot start the binary: an OSError.
ExecuteWkFail ==
    /\ query.pc = "Execute"
    /\ \E e \in SpawnFaults : query' = [query EXCEPT !.exc = e, !.pc = "Fault"]
    /\ UNCHANGED <<trVars, metaVars, callVars>>

\* _string_execute: .stdout.decode().strip(' \n')
StringExecute ==
    /\ query.pc = "Decode"
    /\ Decodable(query.stdout)
    /\ query' = [query EXCEPT !.text = StripSpaceNL(query.stdout), !.pc = "Return"]
    /\ UNCHANGED <<trVars, metaVars, callVars>>

\* .decode() raises UnicodeDecodeError.
DecodeFail ==
    /\ query.pc = "Decode"
    /\ ~Decodable(query.stdout)
    /\ query' = [query EXCEPT !.exc = UnicodeDecodeError, !.pc = "Fault"]
    /\ UNCHANGED <<trVars, metaVars, callVars>>

\* get_version: except Exception as e: wk_version = '%s: %s' % (...)
\* (VersionExcept_OSError: the handler catches OSError only, every other
\* exception leaves get_version.)
VersionExcept_OSError ==
    /\ query.pc = "Fault"
    /\ query.fn = "get_version"
    /\ query' = IF query.exc \in SpawnFaults
                THEN [query EXCEPT !.text = Describe(query.exc), !.pc = "Return"]
                ELSE [query EXCEPT !.out = QueryRaise(query.exc), !.pc = "Done"]
    /\ UNCHANGED <<trVars, metaVars, callVars>>
VersionExcept ==
    /\ query.pc = "Fault"
    /\ query.fn = "get_version"
    /\ query' = [query EXCEPT !.text = Describe(query.exc), !.pc = "Return"]
    /\ UNCHANGED <<trVars, metaVars, callVars>>

\* get_help and get_extended_help have no handler: the exception leaves them.
HelpRaise ==
    /\ query.pc = "Fault"
    /\ query.fn \in {"get_help", "get_extended_help"}
    /\ query' = [query EXCEPT !.out = QueryRaise(query.exc), !.pc = "Done"]
    /\ UNCHANGED <<trVars, metaVars, callVars>>

\* return 'pydf version: %s\nwkhtmltopdf version: %s' % (VERSION, wk_version)
VersionReturn ==
    /\ query.pc = "Return"
    /\ query.fn = "get_version"
    /\ query' = [query EXCEPT !.out = QueryReturn(VersionText(query.text)), !.pc = "Done"]
    /\ UNCHANGED <<trVars, metaVars, callVars>>

\* return _string_execute('-h'), return _string_execute('-H')
HelpReturn ==
    /\ query.pc = "Return"
    /\ query.fn \in {"get_help", "get_extended_help"}
    /\ query' = [query EXCEPT !.out = QueryReturn(query.text), !.pc = "Done"]
    /\ UNCHANGED <<trVars, metaVars, callVars>>

InitQuery == QueryInit /\ TrIdle /\ MetaIdle /\ CallsIdle
NextQuery ==
    \/ get_version
    \/ get_help
    \/ get_extended_help
    \/ ExecuteWk
    \/ ExecuteWkFail
    \/ StringExecute
    \/ DecodeFail
    \/ VersionExcept
    \/ HelpRaise
    \/ VersionReturn
    \/ HelpReturn
SpecQuery == InitQuery /\ [][NextQuery]_vars

(***************************************************************************)
(* The child process: once started it runs until it exits, with the exit   *)
(* status and the output the environment chooses.                          *)
(***************************************************************************)
ChildExit(c) ==
    /\ proc[c].status = "running"
    /\ \E e \in Exits(c) :
         proc' = [proc EXCEPT ![c] = [status |-> "exited", returncode |-> e.returncode,
                                      stdout |-> e.stdout, stderr |-> e.stderr]]
    /\ UNCHANGED <<max_processes, semaphore, cache_dir, rich, io, pc, req, loc, result,
                   trVars, metaVars, queryVars>>

(***************************************************************************)
(* generate_pdf, the synchronous entry point (call 0).                     *)
(***************************************************************************)
SyncStep(p, l, r) ==
    /\ pc' = [pc EXCEPT ![SyncCall] = p]
    /\ loc' = [loc EXCEPT ![SyncCall] = l]
    /\ result' = [result EXCEPT ![SyncCall] = r]
    /\ UNCHANGED <<max_processes, semaphore, cache_dir, rich, io, trVars, metaVars, queryVars>>

\* The caller calls generate_pdf(html, **opts, title=...).
SyncInvoke ==
    /\ pc[SyncCall] = "Pending"
    /\ \E r \in Requests(SyncCall) : req' = [req EXCEPT ![SyncCall] = r]
    /\ SyncStep("Validate", loc[SyncCall], result[SyncCall])
    /\ UNCHANGED proc

\* if html.lstrip().startswith(('http', 'www')): raise ValueError
SyncReject ==
    /\ pc[SyncCall] = "Validate"
    /\ IsUrl(req[SyncCall].html)
    /\ SyncStep("Done", loc[SyncCall], Raise("ValueError"))
    /\ UNCHANGED <<req, proc>>

\* py_args = dict(...); py_args.update(extra_kwargs); cmd_args = _convert_args(py_args)
SyncConvert ==
    /\ pc[SyncCall] = "Validate"
    /\ ~IsUrl(req[SyncCall].html)
    /\ SyncStep("Execute",
                [loc[SyncCall] EXCEPT !.cmd_args = SyncCmdArgs(req[SyncCall].opts)],
                result[SyncCall])
    /\ UNCHANGED <<req, proc>>

\* _execute_wk(*cmd_args, input=html.encode()): the argument html.encode()
\* is evaluated before the call and raises for html that UTF-8 cannot encode.
SyncEncodeFault ==
    /\ pc[SyncCall] = "Execute"
    /\ ~Encodable(req[SyncCall].html)
    /\ SyncStep("Done", loc[SyncCall], Raise("UnicodeEncodeError"))
    /\ UNCHANGED <<req, proc>>

\* subprocess.run cannot start the binary (it is missing, say): OSError.
SyncSpawnFail ==
    /\ pc[SyncCall] = "Execute"
    /\ Encodable(req[SyncCall].html)
    /\ SyncStep("Done", loc[SyncCall], Raise("OSError"))
    /\ UNCHANGED <<req, proc>>

\* subprocess.run starts (WK_PATH,) + args and feeds it the input.
SyncSpawn ==
    /\ pc[SyncCall] = "Execute"
    /\ Encodable(req[SyncCall].html)
    /\ proc' = [proc EXCEPT ![SyncCall].status = "running"]
    /\ SyncStep("Communicate", loc[SyncCall], result[SyncCall])
    /\ UNCHANGED req

\* subprocess.run returns when the child has exited and its output is read:
\* pdf_content = p.stdout
SyncCommunicate ==
    /\ pc[SyncCall] = "Communicate"
    /\ proc[SyncCall].status = "exited"
    /\ SyncStep("Classify",
                [loc[SyncCall] EXCEPT !.pdf_content = proc[SyncCall].stdout,
                                      !.stderr = proc[SyncCall].stderr],
                result[SyncCall])
    /\ UNCHANGED <<req, proc>>

\* if p.returncode != 0 and pdf_content[:4] != b'%PDF':
SyncClassify ==
    /\ pc[SyncCall] = "Classify"
    /\ LET failed == Failed(proc[SyncCall].returncode, loc[SyncCall].pdf_content) IN
       SyncStep(IF failed THEN "Failure" ELSE "Success",
                [loc[SyncCall] EXCEPT !.verdict = IF failed THEN "failure" ELSE "success"],
                result[SyncCall])
    /\ UNCHANGED <<req, proc>>

\* raise RuntimeError('... command: {!r}\nresponse: "{}"'.format(cmd_args, p.stderr.strip()))
SyncRaise ==
    /\ pc[SyncCall] = "Failure"
    /\ SyncStep("Done", loc[SyncCall],
                RaiseRuntimeError(loc[SyncCall].cmd_args, Strip(loc[SyncCall].stderr)))
    /\ UNCHANGED <<req, proc>>

\* return _set_meta_data(pdf_content, title=title, ...)
SyncReturn ==
    /\ pc[SyncCall] = "Success"
    /\ SyncStep("Done", loc[SyncCall],
                ReturnRewritten(loc[SyncCall].pdf_content, req[SyncCall].meta))
    /\ UNCHANGED <<req, proc>>

(***************************************************************************)
(* AsyncPydf.generate_pdf, one task per call c in 1..NumCalls.             *)
(***************************************************************************)
\* A step of the task c that leaves the semaphore alone.
AsyncStep(c, p, l) ==
    /\ pc' = [pc EXCEPT ![c] = p]
    /\ loc' = [loc EXCEPT ![c] = l]
    /\ UNCHANGED <<max_processes, semaphore, cache_dir, rich, req, result,
                   trVars, metaVars, queryVars>>

\* Semaphore.release, then the task ends: the value goes up by one and the
\* first waiter, if there is one, is woken (its future is done and it leaves
\* the queue); it goes round its acquire loop again when it is scheduled.
\* (Release_NoWake: the value goes up and no waiter is woken.)
Release_NoWake(c) ==
    /\ semaphore' = [semaphore EXCEPT !.value = @ + 1]
    /\ pc' = [pc EXCEPT ![c] = "Done"]
Release(c) ==
    /\ semaphore' = [value |-> semaphore.value + 1,
                     waiters |-> IF semaphore.waiters = <<>> THEN <<>>
                                 ELSE Tail(semaphore.waiters)]
    /\ pc' = IF semaphore.waiters = <<>> THEN [pc EXCEPT ![c] = "Done"]
             ELSE [pc EXCEPT ![c] = "Done", ![Head(semaphore.waiters)] = "Woken"]

\* The task leaves `async with self.semaphore` by a return or by an exception:
\* __aexit__ releases the semaphore and the call gives r.
\* (Leave_KeepSlot: the task ends and the semaphore is not released.)
Leave_KeepSlot(c, r) ==
    /\ pc' = [pc EXCEPT ![c] = "Done"]
    /\ result' = [result EXCEPT ![c] = r]
    /\ UNCHANGED <<max_processes, semaphore, cache_dir, rich, io, req, loc, trVars, metaVars, queryVars>>
Leave(c, r) ==
    /\ Release(c)
    /\ result' = [result EXCEPT ![c] = r]
    /\ loc' = [loc EXCEPT ![c] = Logged(@, "released")]
    /\ UNCHANGED <<max_processes, cache_dir, rich, io, req, trVars, metaVars, queryVars>>

\* The caller calls pool.generate_pdf(html, title=..., **cmd_args):
\* cmd_args.setdefault('cache_dir', self.cache_dir)
\* cmd_args = [WK_PATH] + _convert_args(cmd_args)
Call(c) ==
    /\ pc[c] = "Pending"
    /\ \E r \in Requests(c) :
         /\ req' = [req EXCEPT ![c] = r]
         /\ loc' = [loc EXCEPT ![c].cmd_args = AsyncCmdArgs(r.opts, cache_dir)]
    /\ pc' = [pc EXCEPT ![c] = "Acquire"]
    /\ UNCHANGED <<max_processes, semaphore, cache_dir, rich, io, proc, result,
                   trVars, metaVars, queryVars>>

\* async with self.semaphore: Semaphore.acquire finds a free slot.
Acquire(c) ==
    /\ pc[c] \in {"Acquire", "Woken"}
    /\ semaphore.value > 0
    /\ semaphore' = [semaphore EXCEPT !.value = @ - 1]
    /\ pc' = [pc EXCEPT ![c] = "Spawn"]
    /\ loc' = [loc EXCEPT ![c] = Logged(@, "acquired")]
    /\ UNCHANGED <<max_processes, cache_dir, rich, io, req, proc, result,
                   trVars, metaVars, queryVars>>

\* Semaphore.acquire finds no free slot: the task queues a future and
\* suspends on it.
Block(c) ==
    /\ pc[c] \in {"Acquire", "Woken"}
    /\ semaphore.value <= 0
    /\ semaphore' = [semaphore EXCEPT !.waiters = Append(@, c)]
    /\ pc' = [pc EXCEPT ![c] = "Waiting"]
    /\ UNCHANGED <<max_processes, cache_dir, rich, io, req, proc, loc, result,
                   trVars, metaVars, queryVars>>

\* p = await asyncio.create_subprocess_exec(*cmd_args, ...)
SpawnOk(c) ==
    /\ pc[c] = "Spawn"
    /\ proc' = [proc EXCEPT ![c].status = "running"]
    /\ AsyncStep(c, "Write", Logged(loc[c], "spawned"))
    /\ UNCHANGED io

\* create_subprocess_exec raises (the binary is missing, say): OSError.
\* (SpawnFail_KeepSlot: the exception leaves without the release.)
SpawnFail_KeepSlot(c) ==
    /\ pc[c] = "Spawn"
    /\ Leave_KeepSlot(c, Raise("OSError"))
    /\ UNCHANGED proc
SpawnFail(c) ==
    /\ pc[c] = "Spawn"
    /\ Leave(c, Raise("OSError"))
    /\ UNCHANGED proc

\* p.stdin.write(html.encode())
WriteStdin(c) ==
    /\ pc[c] = "Write"
    /\ Encodable(req[c].html)
    /\ AsyncStep(c, "Close", Logged(loc[c], "written"))
    /\ UNCHANGED <<proc, io>>

\* html.encode() raises UnicodeEncodeError: the task leaves the block and
\* gives the slot back, and nothing closes the child's stdin or waits for
\* the child, which goes on running.
EncodeFault(c) ==
    /\ pc[c] = "Write"
    /\ ~Encodable(req[c].html)
    /\ Leave(c, Raise("UnicodeEncodeError"))
    /\ UNCHANGED proc

\* p.stdin.close()
CloseStdin(c) ==
    /\ pc[c] = "Close"
    /\ AsyncStep(c, "Wait", Logged(loc[c], "closed"))
    /\ UNCHANGED <<proc, io>>

\* await p.wait() returns once the child has exited.
WaitExit(c) ==
    /\ pc[c] = "Wait"
    /\ proc[c].status = "exited"
    /\ AsyncStep(c, "ReadStdout", Logged(loc[c], "exited"))
    /\ UNCHANGED <<proc, io>>

\* The caller cancels the task (asyncio.wait_for around the call times out,
\* say) while it is suspended in await p.wait(): CancelledError is raised
\* there and leaves the block, which releases the semaphore; nothing
\* terminates the child or waits for it.
Cancel(c) ==
    /\ pc[c] = "Wait"
    /\ Leave(c, Raise("CancelledError"))
    /\ UNCHANGED proc

\* pdf_content = await p.stdout.read()
ReadStdout(c) ==
    /\ pc[c] = "ReadStdout"
    /\ AsyncStep(c, "Classify", Logged([loc[c] EXCEPT !.pdf_content = proc[c].stdout], "stdout"))
    /\ io' = [io EXCEPT ![c] = Drained(@, "stdout")]
    /\ UNCHANGED proc

\* if p.returncode != 0 and pdf_content[:4] != b'%PDF':
Classify(c) ==
    /\ pc[c] = "Classify"
    /\ LET failed == Failed(proc[c].returncode, loc[c].pdf_content) IN
       AsyncStep(c, IF failed THEN "Failure" ELSE "Success",
                 Logged([loc[c] EXCEPT !.verdict = IF failed THEN "failure" ELSE "success"],
                        "classified"))
    /\ UNCHANGED <<proc, io>>

\* stderr = await p.stderr.read()
ReadStderr(c) ==
    /\ pc[c] = "Failure"
    /\ AsyncStep(c, "Raise", Logged([loc[c] EXCEPT !.stderr = proc[c].stderr], "stderr"))
    /\ io' = [io EXCEPT ![c] = Drained(@, "stderr")]
    /\ UNCHANGED proc

\* raise RuntimeError('... command: {!r}\nresponse: "{}"'.format(cmd_args, stderr.strip()))
RaiseError(c) ==
    /\ pc[c] = "Raise"
    /\ Leave(c, RaiseRuntimeError(loc[c].cmd_args, Strip(loc[c].stderr)))
    /\ UNCHANGED proc

\* return _set_meta_data(pdf_content, title=title, ...)
ReturnPdf(c) ==
    /\ pc[c] = "Success"
    /\ Leave(c, ReturnRewritten(loc[c].pdf_content, req[c].meta))
    /\ UNCHANGED proc

Init == CallsInit /\ TrIdle /\ MetaIdle /\ QueryIdle

Next ==
    \/ \E c \in Calls : ChildExit(c)
    \/ SyncInvoke
    \/ SyncReject
    \/ SyncConvert
    \/ SyncEncodeFault
    \/ SyncSpawnFail
    \/ SyncSpawn
    \/ SyncCommunicate
    \/ SyncClassify
    \/ SyncRaise
    \/ SyncReturn
    \/ \E c \in AsyncCalls : Call(c)
    \/ \E c \in AsyncCalls : Acquire(c)
    \/ \E c \in AsyncCalls : Block(c)
    \/ \E c \in AsyncCalls : SpawnOk(c)
    \/ \E c \in AsyncCalls : SpawnFail(c)
    \/ \E c \in AsyncCalls : WriteStdin(c)
    \/ \E c \in AsyncCalls : EncodeFault(c)
    \/ \E c \in AsyncCalls : CloseStdin(c)
    \/ \E c \in AsyncCalls : WaitExit(c)
    \/ \E c \in AsyncCalls : Cancel(c)
    \/ \E c \in AsyncCalls : ReadStdout(c)
    \/ \E c \in AsyncCalls : Classify(c)
    \/ \E c \in AsyncCalls : ReadStderr(c)
    \/ \E c \in AsyncCalls : RaiseError(c)
    \/ \E c \in AsyncCalls : ReturnPdf(c)

Spec == Init /\ [][Next]_vars

(***************************************************************************)
(* The pool with the output pipes of the children.  A child reads its      *)
(* input up to its end, then writes its output to its two pipes whenever   *)
(* they have room, then exits.  The event loop moves what is in a pipe     *)
(* into the buffer of the stream's reader until the buffer is full: then   *)
(* it stops reading the pipe until the task reads the stream.              *)
(***************************************************************************)
PipeCalls == 1..2

PipeInit ==
    /\ PoolInit
    /\ rich = {}
    /\ pc = [c \in Calls |-> IF c \in PipeCalls THEN "Pending" ELSE "Absent"]
    /\ req = [c \in Calls |-> Request(<<>>, <<>>, NoMeta)]
    /\ proc = [c \in Calls |-> NoProcess]
    /\ loc = [c \in Calls |-> NoLocals]
    /\ result = [c \in Calls |-> Return(<<>>)]
    /\ \E out \in [PipeCalls -> 0..MaxOutSize], err \in [PipeCalls -> 0..MaxErrSize] :
          io = [c \in Calls |->
                  IF c \in PipeCalls
                  THEN Pipes([s \in Streams |-> IF s = "stdout" THEN out[c] ELSE err[c]])
                  ELSE NoPipes]

\* The child of c has its input up to its end: the task has closed stdin.
InputEnded(c) == \E i \in 1..Len(loc[c].log) : loc[c].log[i] = "closed"

\* The child writes one unit to a pipe that has room.
ChildWrite(c, s) ==
    /\ proc[c].status = "running"
    /\ InputEnded(c)
    /\ io[c].left[s] > 0
    /\ io[c].pipe[s] < PipeCap
    /\ io' = [io EXCEPT ![c].left[s] = @ - 1, ![c].pipe[s] = @ + 1]
    /\ UNCHANGED <<max_processes, semaphore, cache_dir, rich, pc, req, proc, loc, result,
                   trVars, metaVars, queryVars>>

\* The event loop reads one unit from a pipe into the reader's buffer,
\* unless the buffer is full and reading is paused.
LoopFeed(c, s) ==
    /\ proc[c].status # "none"
    /\ io[c].pipe[s] > 0
    /\ io[c].buf[s] < BufCap
    /\ io' = [io EXCEPT ![c].pipe[s] = @ - 1, ![c].buf[s] = @ + 1]
    /\ UNCHANGED <<max_processes, semaphore, cache_dir, rich, pc, req, proc, loc, result,
                   trVars, metaVars, queryVars>>

\* The child exits when it has written all its output; what it wrote is
\* empty exactly if its size is 0.
ChildExitFlushed(c) ==
    /\ proc[c].status = "running"
    /\ InputEnded(c)
    /\ \A s \in Streams : io[c].left[s] = 0
    /\ \E rc \in {0, 1} :
         proc' = [proc EXCEPT ![c] =
                    [status |-> "exited", returncode |-> rc,
                     stdout |-> IF io[c].size["stdout"] = 0 THEN <<>> ELSE PdfSig,
                     stderr |-> IF io[c].size["stderr"] = 0 THEN <<>> ELSE <<"e">>]]
    /\ UNCHANGED <<max_processes, semaphore, cache_dir, rich, io, pc, req, loc, result,
                   trVars, metaVars, queryVars>>

InitPipe == PipeInit /\ TrIdle /\ MetaIdle /\ QueryIdle
NextPipe ==
    \/ \E c \in PipeCalls, s \in Streams : ChildWrite(c, s)
    \/ \E c \in PipeCalls, s \in Streams : LoopFeed(c, s)
    \/ \E c \in PipeCalls : ChildExitFlushed(c)
    \/ \E c \in PipeCalls : Call(c)
    \/ \E c \in PipeCalls : Acquire(c)
    \/ \E c \in PipeCalls : Block(c)
    \/ \E c \in PipeCalls : SpawnOk(c)
    \/ \E c \in PipeCalls : SpawnFail(c)
    \/ \E c \in PipeCalls : WriteStdin(c)
    \/ \E c \in PipeCalls : CloseStdin(c)
    \/ \E c \in PipeCalls : WaitExit(c)
    \/ \E c \in PipeCalls : ReadStdout(c)
    \/ \E c \in PipeCalls : Classify(c)
    \/ \E c \in PipeCalls : ReadStderr(c)
    \/ \E c \in PipeCalls : RaiseError(c)
    \/ \E c \in PipeCalls : ReturnPdf(c)
SpecPipe == InitPipe /\ [][NextPipe]_vars

(***************************************************************************)
(* The pool used again and again, under fair scheduling.  A task whose     *)
(* call is over may call generate_pdf again.  The event loop runs every    *)
(* task that is ready to run, and every child that was started exits;      *)
(* when the callers call is up to them.                                    *)
(***************************************************************************)
FairCalls == 1..3

FairInit ==
    /\ PoolInit
    /\ rich = {}
    /\ pc = [c \in Calls |-> IF c \in FairCalls THEN "Pending" ELSE "Absent"]
    /\ req = [c \in Calls |-> Request(<<>>, <<>>, NoMeta)]
    /\ proc = [c \in Calls |-> NoProcess]
    /\ loc = [c \in Calls |-> NoLocals]
    /\ result = [c \in Calls |-> Return(<<>>)]
    /\ io = [c \in Calls |-> NoPipes]

\* The task c, its call over, is about to call pool.generate_pdf again.
Again(c) ==
    /\ pc[c] = "Done"
    /\ proc[c].status # "running"
    /\ pc' = [pc EXCEPT ![c] = "Pending"]
    /\ req' = [req EXCEPT ![c] = Request(<<>>, <<>>, NoMeta)]
    /\ proc' = [proc EXCEPT ![c] = NoProcess]
    /\ loc' = [loc EXCEPT ![c] = NoLocals]
    /\ result' = [result EXCEPT ![c] = Return(<<>>)]
    /\ UNCHANGED <<max_processes, semaphore, cache_dir, rich, io, trVars, metaVars, queryVars>>

\* A step of the task c that the event loop runs once the task is ready.
TaskStep(c) ==
    \/ Acquire(c)
    \/ Block(c)
    \/ SpawnOk(c)
    \/ SpawnFail(c)
    \/ WriteStdin(c)
    \/ CloseStdin(c)
    \/ WaitExit(c)
    \/ ReadStdout(c)
    \/ Classify(c)
    \/ ReadStderr(c)
    \/ RaiseError(c)
    \/ ReturnPdf(c)

InitFair == FairInit /\ TrIdle /\ MetaIdle /\ QueryIdle
NextFair ==
    \/ \E c \in FairCalls : ChildExit(c)
    \/ \E c \in FairCalls : Call(c)
    \/ \E c \in FairCalls : Again(c)
    \/ \E c \in FairCalls : Acquire(c)
    \/ \E c \in FairCalls : Block(c)
    \/ \E c \in FairCalls : SpawnOk(c)
    \/ \E c \in FairCalls : SpawnFail(c)
    \/ \E c \in FairCalls : WriteStdin(c)
    \/ \E c \in FairCalls : CloseStdin(c)
    \/ \E c \in FairCalls : WaitExit(c)
    \/ \E c \in FairCalls : ReadStdout(c)
    \/ \E c \in FairCalls : Classify(c)
    \/ \E c \in FairCalls : ReadStderr(c)
    \/ \E c \in FairCalls : RaiseError(c)
    \/ \E c \in FairCalls : ReturnPdf(c)
Fairness ==
    \A c \in FairCalls : WF_vars(TaskStep(c)) /\ WF_vars(ChildExit(c))
SpecFair == InitFair /\ [][NextFair]_vars /\ Fairness

(***************************************************************************)
(* Claims about _convert_args.                                             *)
(***************************************************************************)
\* The flag tokens: everything before the last two tokens of a command.
FlagTokens(cmd) == SubSeq(cmd, 1, Len(cmd) - 2)

\* The rendering of one key as C5 states it: nothing for null and for
\* boolean false, the bare flag for boolean true, the flag and the string
\* form for every other value.
C5_Tokens(item) ==
    IF item.value.t = "None" \/ (item.value.t = "bool" /\ ~item.value.b) THEN <<>>
    ELSE IF item.value.t = "bool" THEN <<ArgName(item.name)>>
    ELSE <<ArgName(item.name), Str(item.value)>>

RECURSIVE C5_AllTokens(_)
C5_AllTokens(items) ==
    IF items = <<>> THEN <<>> ELSE C5_Tokens(Head(items)) \o C5_AllTokens(Tail(items))

\* C5: every key of the Option Set is rendered by its value: null and false
\* contribute no token, true contributes the bare flag, every other value
\* (every string and every integer, 0 and 1 included) contributes the flag
\* followed by the value's string form.
C5_RenderedByValue ==
    tr_pc = "done" => FlagTokens(cmd_args) = C5_AllTokens(py_args)

\* The number of tokens an item contributes.
Width(item) ==
    IF Omitted(item.value) THEN 0 ELSE IF IsTrue(item.value) THEN 1 ELSE 2

RECURSIVE WidthBefore(_, _)
WidthBefore(items, i) ==
    IF i <= 1 THEN 0 ELSE WidthBefore(items, i - 1) + Width(items[i - 1])

\* C8: the rendered sequence ends with the two markers '-' '-', every
\* rendered key's flag stands before them at the place its iteration order
\* gives it, and nothing but the keys' tokens and the two markers is in the
\* sequence (the markers are appended once, whatever the options are).
C8_MarkersLast ==
    tr_pc = "done" =>
        /\ Len(cmd_args) >= 2
        /\ cmd_args[Len(cmd_args)] = Marker
        /\ cmd_args[Len(cmd_args) - 1] = Marker
        /\ Len(cmd_args) = WidthBefore(py_args, Len(py_args) + 1) + 2
        /\ \A i \in 1..Len(py_args) :
               Width(py_args[i]) > 0 =>
                   cmd_args[WidthBefore(py_args, i) + 1] = ArgName(py_args[i].name)

\* Two options, one rendered as a bare flag and one with a value that is
\* itself '-', have been translated.
C8_Witness ==
    /\ tr_pc = "done"
    /\ Len(py_args) >= 2
    /\ \E i, j \in 1..Len(py_args) :
          /\ IsTrue(py_args[i].value)
          /\ py_args[j].value = PyStr(<<"-">>)
    /\ Len(cmd_args) = 5

(***************************************************************************)
(* Claims about _set_meta_data.                                            *)
(***************************************************************************)
\* None of the five fields is supplied with a non-empty value.
NoFieldSupplied(kw) == \A i \in 1..5 : kw[i].t = "None" \/ kw[i] = PyStr(<<>>)

\* The anchor pattern occurs in the bytes.
AnchorOccurs(s) == \E i \in 1..Len(s) : MatchEnd(s, i) # 0

\* C9: _set_meta_data returns its input bytes, and does not raise, when no
\* field is supplied with a non-empty value, and also when metadata is
\* supplied but the anchor pattern does not occur in the bytes.
C9_UnchangedWithoutMatch ==
    (meta_pc = "done" /\ (NoFieldSupplied(kwargs) \/ ~AnchorOccurs(pdf_content)))
        => meta_out = Returned(pdf_content)

\* The block C10 describes: one line '/<FieldName> (<value>)' for each
\* non-empty field, in the order Title, Author, Subject, Creator, Producer.
RECURSIVE C10_Lines(_, _)
C10_Lines(kw, i) ==
    IF i > 5 THEN <<>>
    ELSE IF kw[i].t = "None" \/ kw[i] = PyStr(<<>>) THEN C10_Lines(kw, i + 1)
    ELSE << <<"/">> \o FieldNames[i] \o <<" ", "(">> \o kw[i].s \o <<")">> >>
            \o C10_Lines(kw, i + 1)

C10_Block(kw) == Join(C10_Lines(kw, 1))

\* C10: with a non-empty field and the anchor in the bytes, the result is the
\* input with the first anchor span, and nothing else, replaced by the block
\* of the non-empty fields' lines.
C10_FirstSpanReplaced ==
    (meta_pc = "done" /\ ~NoFieldSupplied(kwargs) /\ AnchorOccurs(pdf_content)) =>
        LET i == CHOOSE k \in 1..Len(pdf_content) :
                    /\ MatchEnd(pdf_content, k) # 0
                    /\ \A j \in 1..(k - 1) : MatchEnd(pdf_content, j) = 0
        IN meta_out = Returned(SubSeq(pdf_content, 1, i - 1) \o C10_Block(kwargs)
                                \o SubSeq(pdf_content, MatchEnd(pdf_content, i) + 1,
                                          Len(pdf_content)))

(***************************************************************************)
(* Claims about the entry points.                                          *)
(***************************************************************************)
\* The child processes of the pool's tasks that are running.
Running == { c \in AsyncCalls : proc[c].status = "running" }

\* The tasks that are inside `async with self.semaphore`.
InBlock ==
    { c \in AsyncCalls :
        pc[c] \in {"Spawn", "Write", "Close", "Wait", "ReadStdout", "Classify",
                   "Success", "Failure", "Raise"} }

\* C1: at most max_processes child processes of the pool run at once (so a
\* call that finds every slot taken starts its child only after a running
\* child has exited).
C1_AtMostCeilingRunning == Cardinality(Running) <= max_processes

\* C2: every task that took a slot gives exactly that slot back on every way
\* out: the free slots are the ceiling less the tasks inside the block, never
\* more than the ceiling, and the ceiling again once every task is done.
C2_SlotsGivenBack ==
    /\ semaphore.value <= max_processes
    /\ semaphore.value = max_processes - Cardinality(InBlock)
    /\ (\A c \in AsyncCalls : pc[c] \in {"Absent", "Done"}) =>
           semaphore.value = max_processes

\* Every task is done, one by a failed spawn, one by a RuntimeError and one
\* by a return, and every slot is free.
C2_Witness ==
    /\ \A c \in AsyncCalls : pc[c] = "Done"
    /\ \E a, b, c \in AsyncCalls :
          /\ result[a].raised = "OSError"
          /\ result[b].raised = "RuntimeError"
          /\ result[c].raised = ""
    /\ semaphore.value = max_processes

\* The bytes begin with the four bytes of the document signature.
HasSignature(bytes) ==
    /\ Len(bytes) >= 4
    /\ bytes[1] = "%" /\ bytes[2] = "P" /\ bytes[3] = "D" /\ bytes[4] = "F"

\* The call c has classified its child's exit.
Classified(c) == loc[c].verdict # ""

\* C3: a call, synchronous or asynchronous, that classifies its child's exit
\* takes it for a success exactly if the exit status is zero or the captured
\* standard output begins with the signature, and raises the RuntimeError
\* exactly if it does not.
C3_SuccessIffZeroOrSignature ==
    \A c \in Calls :
        Classified(c) =>
            LET success == proc[c].returncode = 0 \/ HasSignature(proc[c].stdout) IN
            /\ loc[c].pdf_content = proc[c].stdout
            /\ (loc[c].verdict = "success") <=> success
            /\ pc[c] = "Done" => ((result[c].raised = "RuntimeError") <=> ~success)

\* A call whose child exited nonzero with output that begins with the
\* signature has returned the document.
C3_Witness ==
    \E c \in Calls :
        /\ pc[c] = "Done"
        /\ Classified(c)
        /\ proc[c].returncode # 0
        /\ HasSignature(proc[c].stdout)
        /\ result[c] = Return(proc[c].stdout)

\* The command the call c runs: the resolved binary path, the rendered flag
\* tokens and the two markers.
ResolvedCommand(c) ==
    <<WK_PATH>> \o convert_args(IF c = SyncCall THEN SyncPyArgs(req[c].opts)
                                ELSE AsyncPyArgs(req[c].opts, cache_dir))

\* C4: a call, synchronous or asynchronous, whose child exited nonzero with
\* output that does not begin with the signature raises the RuntimeError with
\* the full resolved command and the trimmed standard error, and returns no
\* bytes.
C4_ErrorCarriesCommand ==
    \A c \in Calls :
        (/\ pc[c] = "Done"
         /\ Classified(c)
         /\ proc[c].returncode # 0
         /\ ~HasSignature(proc[c].stdout)) =>
            /\ result[c].raised = "RuntimeError"
            /\ result[c].value = <<>>
            /\ result[c].command = ResolvedCommand(c)
            /\ result[c].response = Strip(proc[c].stderr)

\* The text, after its leading whitespace, begins with 'http' or 'www'.
UrlLike(html) ==
    \E k \in 0..Len(html) :
        /\ \A i \in 1..k : html[i] \in Whitespace
        /\ IsAt(html, k + 1, Http) \/ IsAt(html, k + 1, Www)

\* The call c has rejected its input: it raised ValueError, or is about to,
\* and has no child process.
Rejects(c) ==
    /\ pc[c] \in {"Validate", "Done"}
    /\ pc[c] = "Done" => result[c].raised = "ValueError"
    /\ proc[c].status = "none"

C7_AsyncRejectsUrl ==
    \A c \in AsyncCalls :
        (pc[c] \notin {"Absent", "Pending"} /\ UrlLike(req[c].html)) =>
            /\ pc[c] \in {"Acquire", "Done"}
            /\ pc[c] = "Done" => result[c].raised = "ValueError"
            /\ proc[c].status = "none"

(***************************************************************************)
(* Claims about the pool's cache directory.                                *)
(***************************************************************************)
CacheDirFlag == ArgName(CacheDirName)

\* The command holds the token, and holds the flag followed by the value.
HasToken(cmd, tok) == \E i \in 1..Len(cmd) : cmd[i] = tok
FlagWith(cmd, flag, val) ==
    \E i \in 1..(Len(cmd) - 1) : cmd[i] = flag /\ cmd[i + 1] = val

\* The task c has computed the command it gives to its child.
HasCommand(c) == pc[c] \notin {"Absent", "Pending"}

\* C11 as stated: the command of every AsyncPydf.generate_pdf call holds
\* '--cache-dir' followed by the pool's path if the caller gave no cache_dir
\* option, and holds the caller's own cache_dir (never the pool's) if the
\* caller gave one; the pool's stored path is the same in every state.
C11_CallerValueInCommand ==
    /\ cache_dir = PydfCache
    /\ \A c \in AsyncCalls :
          HasCommand(c) =>
              IF HasKey(req[c].opts, CacheDirName)
              THEN /\ HasToken(loc[c].cmd_args, CacheDirFlag)
                   /\ ~FlagWith(loc[c].cmd_args, CacheDirFlag, cache_dir)
              ELSE FlagWith(loc[c].cmd_args, CacheDirFlag, cache_dir)

\* C11, amended: the command holds '--cache-dir' followed by the pool's path
\* if the caller gave no cache_dir option; if the caller gave one the pool's
\* path is not in the command and the caller's option is rendered as every
\* option is: the flag followed by the value for a string, no '--cache-dir'
\* token at all for None and False.  The pool's stored path is the same in
\* every state.
C11_PoolDirOnlyByDefault ==
    /\ cache_dir = PydfCache
    /\ \A c \in AsyncCalls :
          HasCommand(c) =>
              IF HasKey(req[c].opts, CacheDirName)
              THEN LET v == ValueOf(req[c].opts, CacheDirName) IN
                   /\ v # PyStr(cache_dir) =>
                          ~FlagWith(loc[c].cmd_args, CacheDirFlag, cache_dir)
                   /\ v.t = "str" => FlagWith(loc[c].cmd_args, CacheDirFlag, v.s)
                   /\ Omitted(v) => ~HasToken(loc[c].cmd_args, CacheDirFlag)
              ELSE FlagWith(loc[c].cmd_args, CacheDirFlag, cache_dir)

\* Two children run on one pool: one for a caller that gave cache_dir=None,
\* one for a caller that gave no cache_dir.
C11_Witness ==
    \E c, d \in AsyncCalls :
        /\ proc[c].status = "running" /\ proc[d].status = "running"
        /\ HasKey(req[c].opts, CacheDirName)
        /\ ValueOf(req[c].opts, CacheDirName) = PyNone
        /\ ~HasKey(req[d].opts, CacheDirName)

(***************************************************************************)
(* Claims about the queries.                                               *)
(***************************************************************************)
\* The number of lines of a text.
LineCount(text) == Cardinality({ i \in 1..Len(text) : text[i] = NL }) + 1

\* C12: get_version never raises: after a fault of the query (the binary
\* cannot be started, its output cannot be decoded) it returns two lines, the
\* first with the library's version, the second with the name and the message
\* of the exception where the binary's version would be; without a fault it
\* returns the two labelled versions.  get_help and get_extended_help raise
\* the exception of the fault and return nothing.
C12_VersionNeverRaises ==
    query.pc = "Done" =>
        IF query.fn = "get_version"
        THEN /\ query.out.raised = NoException
             /\ IF query.exc # NoException
                THEN /\ query.out.value =
                            PydfLabel \o VERSION \o <<NL>> \o WkLabel \o query.exc.cls
                                \o <<":", " ">> \o query.exc.msg
                     /\ LineCount(query.out.value) = 2
                ELSE query.out.value =
                         PydfLabel \o VERSION \o <<NL>> \o WkLabel \o StripSpaceNL(query.stdout)
        ELSE query.exc # NoException =>
                 /\ query.out.raised = query.exc
                 /\ query.out.value = <<>>

\* get_version has returned after the binary's output could not be decoded.
C12_Witness ==
    /\ query.pc = "Done"
    /\ query.fn = "get_version"
    /\ query.exc = UnicodeDecodeError
    /\ ~Decodable(query.stdout)
    /\ query.out.raised = NoException

(***************************************************************************)
(* Claims about the order of the steps of one AsyncPydf.generate_pdf call. *)
(***************************************************************************)
\* In the log, every occurrence of the step b has the step a before it.
Before(l, a, b) ==
    \A j \in 1..Len(l) : l[j] = b => \E i \in 1..(j - 1) : l[i] = a
Took(l, a) == \E i \in 1..Len(l) : l[i] = a

\* C13: the steps of every AsyncPydf.generate_pdf call come in this order:
\* slot acquired, child spawned, input written, standard input closed, the
\* child's exit awaited, and only then standard output and standard error
\* read; the call classifies only after the child has exited and both
\* standard output and standard error have been read, and a call that has
\* spawned a child releases the slot only after it has classified.
C13_LifecycleOrder ==
    \A c \in AsyncCalls :
        LET l == loc[c].log IN
        /\ Before(l, "acquired", "spawned")
        /\ Before(l, "spawned", "written")
        /\ Before(l, "written", "closed")
        /\ Before(l, "closed", "exited")
        /\ Before(l, "exited", "stdout")
        /\ Before(l, "exited", "stderr")
        /\ Before(l, "exited", "classified")
        /\ Before(l, "stdout", "classified")
        /\ Before(l, "stderr", "classified")
        /\ Took(l, "spawned") => Before(l, "classified", "released")
        /\ Took(l, "exited") => proc[c].status = "exited"

(***************************************************************************)
(* Claims about cancellation.                                              *)
(***************************************************************************)
\* The call c was cancelled by its caller.
Cancelled(c) == pc[c] = "Done" /\ result[c].raised = "CancelledError"

\* C16: a call that its caller cancelled while it awaited the child's exit
\* has not given its slot back while its child is running, and with
\* cancelled calls too at most max_processes children of calls that were not
\* cut short by an exception of their own run at once.
C16_CancelKeepsSlotWhileRunning ==
    /\ \A c \in AsyncCalls : Cancelled(c) => proc[c].status # "running"
    /\ (\A c \in AsyncCalls : pc[c] = "Done" /\ proc[c].status = "running" => Cancelled(c))
           => Cardinality({ c \in AsyncCalls : proc[c].status = "running" }) <= max_processes

(***************************************************************************)
(* Claims about the output pipes.                                          *)
(***************************************************************************)
\* The child of c has output left to write and can write none of it: every
\* pipe it still has to write to is full, and so is the buffer behind it.
ChildBlocked(c) ==
    /\ proc[c].status = "running"
    /\ InputEnded(c)
    /\ \E s \in Streams : io[c].left[s] > 0
    /\ \A s \in Streams :
          io[c].left[s] > 0 => (io[c].pipe[s] = PipeCap /\ io[c].buf[s] = BufCap)

\* C15: awaiting the child's exit before reading its output never leaves the
\* call and its child waiting on each other, whatever the finite size of the
\* output is: no call is suspended in p.wait(), holding its slot, while its
\* child is blocked on output pipes that nobody reads.
C15_NoMutualWait ==
    \A c \in AsyncCalls : ~(pc[c] = "Wait" /\ ChildBlocked(c))

(***************************************************************************)
(* Claims about admission under fair scheduling.                           *)
(***************************************************************************)
\* The call c is suspended in the semaphore's queue; the call c holds a slot
\* and is about to spawn its child.
Suspended(c) == pc[c] = "Waiting"
Admitted(c) == pc[c] = "Spawn"

\* A call arrives at the pool.
Arrival == \E c \in FairCalls : Call(c)

\* C14 as stated: under fair scheduling, with every child that was started
\* exiting, every call suspended on the semaphore is eventually admitted,
\* whatever calls arrive after it.
C14_EveryWaiterAdmitted ==
    \A c \in FairCalls : Suspended(c) ~> Admitted(c)

\* While a slot is free and calls are suspended, a call that a release has
\* woken is on its way to take the slot.
FreeSlotHasTaker ==
    (semaphore.value > 0 /\ semaphore.waiters # <<>>) => \E c \in FairCalls : pc[c] = "Woken"

\* C14, amended: under fair scheduling, with every child that was started
\* exiting, every call suspended on the semaphore is eventually admitted
\* unless calls keep arriving for ever; and no freed slot stays unused while
\* a call is suspended: a woken call is on its way to it.
C14_AdmittedUnlessCallsKeepArriving ==
    /\ []FreeSlotHasTaker
    /\ \/ []<><<Arrival>>_vars
       \/ \A c \in FairCalls : Suspended(c) ~> Admitted(c)

\* A call that was suspended on the semaphore has been woken by the release
\* of a call that is over, and the slot it was woken for is free.
C14_Witness ==
    \E c, d \in FairCalls :
        /\ pc[c] = "Woken"
        /\ pc[d] = "Done"
        /\ semaphore.value > 0
        /\ semaphore.waiters = <<>>

====
